---- MODULE Spec2Model ----
(***************************************************************************)
(* Model of the PagedAttention CPU node                                    *)
(* (src/plugins/intel_cpu/src/nodes/paged_attn.cpp).                       *)
(*                                                                         *)
(* State: the nodes of one compiled model (their construction arguments,   *)
(* supportedPrimitiveDescriptors, m_executor), the params cache they       *)
(* share, the capabilities of the machine and of the build, and the record *)
(* of the last execute() call.                                             *)
(*                                                                         *)
(* Extents are size_t in the source.  Every extent of the model is far     *)
(* below 2^31, so an Int whose value is negative stands for the wrapped    *)
(* value 2^64 + x; sums and products of such representatives are again the *)
(* representatives of the wrapped results, and two size_t values are equal *)
(* exactly when their representatives are.                                 *)
(***************************************************************************)
EXTENDS Integers, Sequences, FiniteSets, TLC

VARIABLES node, paramsCache, hasBf16, archX64, call

vars == <<node, paramsCache, hasBf16, archX64, call>>

(***************************************************************************)
(* Bounds of the model.                                                    *)
(***************************************************************************)
MaxCalls == 2
MaxB == 2
MaxL == 1
MaxH == 2
MaxS == 2
MaxNB == 1

Nodes == {1, 2}
\* A null std::shared_ptr<PagedAttentionExecutor>.
NULL == [data_type |-> "nullptr", kvcache_type |-> "nullptr"]

(***************************************************************************)
(* Positional roles of the inputs (the ID_ constants of                    *)
(* PagedAttentionExecutor).                                                *)
(***************************************************************************)
ID_Q == 0
ID_K == 1
ID_V == 2
ID_KCACHE == 3
ID_VCACHE == 4
ID_IS_PROMPT == 5
ID_SLOT_MAPPING == 6
ID_MAX_CONTEXT_LEN == 7
ID_CONTEXT_LENS == 8
ID_BLOCK_TABLES == 9
ID_SCALE == 10
ID_ALIBI_SLOPES == 11
ID_SLIDING_WINDOW == 12
ID_SUBSEQUENCE_LENS == 13

\* Extra elements of the last axis of a u8 cache (line 185, 193, 194).
QuantStatElems == 8

PA_TYPE == "PagedAttentionExtension"

\* The operations a node may be constructed from.
OpTypes == {PA_TYPE, "Other"}
InputCounts == {2, 12, 13, 14}
\* getOriginalInputPrecisionAtPort(0)
InputPrecisions == {"bf16", "f32", "f16"}
\* getOriginalInputPrecisionAtPort(ID_KCACHE)
KvPrecisions == {"u8", "f32"}
\* Axis 2 of a cache tensor.
BlockSizes == {16, 32}

NoNode ==
    [status |-> "none", typeName |-> "", nInputs |-> 0, prec0 |-> "", kvPrec |-> "",
     spd |-> <<>>, spdReturns |-> 0, spdThrew |-> FALSE, firstDesc |-> <<>>,
     prim |-> "none", m_executor |-> NULL]

NoCall ==
    [node |-> 0, inputs |-> <<>>, ok |-> FALSE, error |-> "", events |-> <<>>,
     writers |-> <<>>, execInputs |-> <<>>, executor |-> NULL]

(***************************************************************************)
(* PagedAttention::isSupportedOperation (lines 161-171).  Neither          *)
(* get_input_size nor get_type_name throws, so the catch branch is never   *)
(* taken; both remaining paths return true.                                *)
(***************************************************************************)
isSupportedOperation(typeName, nInputs) ==
    IF typeName = PA_TYPE /\ nInputs = ID_SLIDING_WINDOW + 1
    THEN TRUE
    ELSE TRUE

(***************************************************************************)
(* PagedAttention::getRuntimePrecision (lines 203-212).                    *)
(***************************************************************************)
\* Variant: the capability of the machine is not consulted.
getRuntimePrecisionNoHw(prec0, with_cpu_x86_bfloat16) ==
    IF prec0 = "bf16" THEN "bf16" ELSE "f32"

getRuntimePrecision(prec0, with_cpu_x86_bfloat16) ==
    IF prec0 = "bf16" /\ with_cpu_x86_bfloat16 THEN "bf16" ELSE "f32"

(***************************************************************************)
(* The memory descriptors initSupportedPrimitiveDescriptors configures     *)
(* (lines 75-117): the precision set on input port p of a node with        *)
(* orgInputNumber inputs; "undef" is a port configuration that was resized *)
(* into existence and never given a descriptor.                            *)
(***************************************************************************)
PortPrecision(p, rtPrecision, past_kv_input_mem_precision, orgInputNumber) ==
    CASE p \in {ID_Q, ID_K, ID_V} -> rtPrecision
      [] p \in {ID_KCACHE, ID_VCACHE} -> past_kv_input_mem_precision
      [] p = ID_IS_PROMPT -> "u8"
      [] p \in {ID_SLOT_MAPPING, ID_MAX_CONTEXT_LEN, ID_CONTEXT_LENS,
                ID_BLOCK_TABLES, ID_SLIDING_WINDOW} -> "i32"
      [] p \in {ID_SCALE, ID_ALIBI_SLOPES} -> "f32"
      [] p = ID_SUBSEQUENCE_LENS /\ orgInputNumber = 14 -> "i32"
      [] OTHER -> "undef"

\* The NodeConfig built by one call (lines 70-120); port p is element p + 1.
NodeConfig(nd, rtPrecision) ==
    [inConfs |-> [i \in 1..nd.nInputs |->
                    PortPrecision(i - 1, rtPrecision, nd.kvPrec, nd.nInputs)],
     outConfs |-> <<rtPrecision>>,
     impl |-> "ref_any"]

\* The guard of lines 66-67.
\* Variant: no early return.
AlreadyInitialisedNever(nd) == FALSE

AlreadyInitialised(nd) == nd.spd # <<>>

(***************************************************************************)
(* PagedAttention::initSupportedPrimitiveDescriptors (lines 65-123) on     *)
(* node n.  With fewer than three inputs the writes to inConfs[0..2]       *)
(* (lines 75-80) index past the end of the vector: undefined behaviour,    *)
(* whose outcomes are a crash of the process or a run on to the assertion  *)
(* of line 82, which then throws.                                          *)
(***************************************************************************)
Crashed == \E n \in Nodes : node[n].status = "crashed"

(***************************************************************************)
(* Execution is synchronous: the record of a call stands until the call    *)
(* has returned to the graph (normally or by its exception), and the graph *)
(* does nothing else in between.                                           *)
(***************************************************************************)
InCall == call.node # 0

InitSupportedPrimitiveDescriptors(n) ==
    /\ ~Crashed
    /\ ~InCall
    /\ node[n].status = "constructed"
    /\ node[n].spdReturns < MaxCalls
    /\ LET nd == node[n]
           rtPrecision == getRuntimePrecision(nd.prec0, hasBf16)
           config == NodeConfig(nd, rtPrecision)
       IN  \/ /\ AlreadyInitialised(nd)
              /\ node' = [node EXCEPT ![n].spdReturns = @ + 1]
           \/ /\ ~AlreadyInitialised(nd)
              /\ nd.nInputs < 3
              /\ \E outcome \in {"crashed", "constructed"} :
                    node' = [node EXCEPT ![n].status = outcome,
                                         ![n].spdThrew = (outcome = "constructed")]
           \/ /\ ~AlreadyInitialised(nd)
              /\ nd.nInputs >= 3
              /\ ~(nd.nInputs = 13 \/ nd.nInputs = 14)
              /\ node' = [node EXCEPT ![n].spdThrew = TRUE]
           \/ /\ ~AlreadyInitialised(nd)
              /\ nd.nInputs = 13 \/ nd.nInputs = 14
              /\ node' = [node EXCEPT
                            ![n].spd = Append(@, config),
                            ![n].spdReturns = @ + 1,
                            ![n].firstDesc =
                                IF nd.spdReturns = 0 THEN <<config>> ELSE @]
    /\ UNCHANGED <<paramsCache, hasBf16, archX64, call>>

(***************************************************************************)
(* The executor factory and the params cache.  Both live outside           *)
(* paged_attn.cpp; they are modelled from the specification: an executor   *)
(* is an immutable object built for one runtime precision and one cache    *)
(* precision, and the cache maps a key to the lazily built, shared         *)
(* instance (a null result is returned and not stored).                    *)
(***************************************************************************)
make_pa_executor(rtPrecision, kvCachePrecision) ==
    [data_type |-> rtPrecision, kvcache_type |-> kvCachePrecision]

CacheGet(cache, key) ==
    IF \E e \in cache : e.key = key
    THEN (CHOOSE e \in cache : e.key = key).value
    ELSE NULL

getOrCreate(cache, key, built) ==
    IF CacheGet(cache, key) # NULL
    THEN [first |-> CacheGet(cache, key), cache |-> cache]
    ELSE IF built # NULL
         THEN [first |-> built, cache |-> cache \cup {[key |-> key, value |-> built]}]
         ELSE [first |-> NULL, cache |-> cache]

\* PagedAttentionKey (lines 37-55): equality and hash read rtPrecision only.
PagedAttentionKey(rtPrecision, kvCachePrecision) == [rtPrecision |-> rtPrecision]

\* The builder lambda of lines 131-138.
Builder(rtPrecision, kvCachePrecision) ==
    IF archX64 THEN make_pa_executor(rtPrecision, kvCachePrecision) ELSE NULL

\* The null check of lines 142-144.
\* Variant: the result is not tested.
CreationFailsNever(first) == FALSE

CreationFails(first) == first = NULL

(***************************************************************************)
(* PagedAttention::createPrimitive (lines 125-146) on node n.  The graph   *)
(* creates the primitive of a node after a primitive descriptor of it was  *)
(* selected.                                                               *)
(***************************************************************************)
CreatePrimitive(n) ==
    /\ ~Crashed
    /\ ~InCall
    /\ node[n].status = "constructed"
    /\ node[n].spd # <<>>
    /\ LET nd == node[n]
           rtPrecision == getRuntimePrecision(nd.prec0, hasBf16)
           key == PagedAttentionKey(rtPrecision, nd.kvPrec)
           result == getOrCreate(paramsCache, key, Builder(rtPrecision, nd.kvPrec))
       IN  /\ paramsCache' = result.cache
           /\ IF CreationFails(result.first)
              THEN node' = [node EXCEPT ![n].prim = "failed"]
              ELSE node' = [node EXCEPT ![n].prim = "ok",
                                        ![n].m_executor = result.first]
    /\ UNCHANGED <<hasBf16, archX64, call>>

(***************************************************************************)
(* PagedAttention::PagedAttention (lines 57-63).                           *)
(***************************************************************************)
Construct(n, typeName, nInputs, prec0, kvPrec) ==
    /\ ~Crashed
    /\ ~InCall
    /\ node[n].status = "none"
    /\ node' = [node EXCEPT ![n] =
                 [NoNode EXCEPT
                    !.status = IF isSupportedOperation(typeName, nInputs)
                               THEN "constructed" ELSE "rejected",
                    !.typeName = typeName, !.nInputs = nInputs,
                    !.prec0 = prec0, !.kvPrec = kvPrec]]
    /\ UNCHANGED <<paramsCache, hasBf16, archX64, call>>

(***************************************************************************)
(* PlainTensor, the tensor view.  Its code lives outside paged_attn.cpp;   *)
(* it is modelled from the specification: a view is an element type and an *)
(* extent per axis, assert_dims fails when the rank or a non-wildcard      *)
(* extent differs (0 is the wildcard when special_zero is set), reshape    *)
(* keeps the element count and permute reorders the axes.                  *)
(***************************************************************************)
RECURSIVE Product(_)
Product(dims) ==
    IF dims = <<>> THEN 1 ELSE Head(dims) * Product(Tail(dims))

size(t, axis) == t.m_dims[axis + 1]

assert_dims(t, expect_dims, special_zero) ==
    /\ Len(t.m_dims) = Len(expect_dims)
    /\ \A i \in 1..Len(expect_dims) :
          \/ special_zero /\ expect_dims[i] = 0
          \/ expect_dims[i] = t.m_dims[i]

reshape_ok(t, dims) == Product(t.m_dims) = Product(dims)

reshape(t, dims) == [t EXCEPT !.m_dims = dims]

permute(t, order) ==
    [t EXCEPT !.m_dims = [i \in 1..Len(order) |-> t.m_dims[order[i] + 1]]]

(***************************************************************************)
(* The pieces of gatherConcatPastkvForPagedAttn (lines 173-201).           *)
(***************************************************************************)
\* The test of lines 185 and 192.
\* Variant: the type of the new key is tested.
IsQuantizedByKey(k, k_cache, v_cache) == k.m_dt = "u8"

IsQuantized(k, k_cache, v_cache) == k_cache.m_dt = "u8"

\* S of line 185.
HeadSize(k, k_cache, v_cache) ==
    size(v_cache, 3) - (IF IsQuantized(k, k_cache, v_cache) THEN QuantStatElems ELSE 0)

\* Lines 187-188.
\* Variant: the value tensor is not checked.
NewKVCheckKeyOnly(k, v, B, L1, H, S) ==
    assert_dims(k, <<B, L1, H * S>>, FALSE)

NewKVCheck(k, v, B, L1, H, S) ==
    /\ assert_dims(k, <<B, L1, H * S>>, FALSE)
    /\ assert_dims(v, <<B, L1, H * S>>, FALSE)

\* Line 189.
SlotMappingCheck(slot_mapping, B) ==
    assert_dims(slot_mapping, <<B, 0>>, TRUE)

\* Lines 193 and 197; last is S + 8 or S.
\* Variant: the last axis is a wildcard too.
KCacheCheckNoLast(k_cache, H, last) ==
    assert_dims(k_cache, <<0, H, 0, 0>>, TRUE)

KCacheCheck(k_cache, H, last) ==
    assert_dims(k_cache, <<0, H, 0, last>>, TRUE)

\* Lines 194 and 198.
\* Variant: the V-cache is checked like the K-cache, with wildcards.
VCacheCheckWildcards(v_cache, k_cache, H, last) ==
    assert_dims(v_cache, <<0, H, 0, last>>, TRUE)

VCacheCheck(v_cache, k_cache, H, last) ==
    assert_dims(v_cache, <<k_cache.m_dims[1], H, k_cache.m_dims[3], last>>, FALSE)

ShapeError(at) ==
    [ok |-> FALSE, error |-> "ShapeError", at |-> at, writers |-> <<>>]

\* One invocation of a cache writer (lines 195 and 199) with the views it gets.
WriterCall(fn, k, v, k_cache, v_cache) ==
    [ok |-> TRUE, error |-> "", at |-> "",
     writers |-> <<[fn |-> fn, k |-> k.m_dims, v |-> v.m_dims,
                    k_cache |-> k_cache.m_dims, v_cache |-> v_cache.m_dims]>>]

(***************************************************************************)
(* PagedAttention::gatherConcatPastkvForPagedAttn (lines 173-201): the     *)
(* outcome of the call on the input list (input i is element i + 1).       *)
(***************************************************************************)
gatherConcatPastkvForPagedAttn(inputs) ==
    LET k == inputs[ID_K + 1]
        v == inputs[ID_V + 1]
        k_cache == inputs[ID_KCACHE + 1]
        v_cache == inputs[ID_VCACHE + 1]
        slot_mapping == inputs[ID_SLOT_MAPPING + 1]
        B == size(k, 0)
        L1 == size(k, 1)
        H == size(k_cache, 1)
        S == HeadSize(k, k_cache, v_cache)
        kp == permute(reshape(k, <<B, L1, H, S>>), <<0, 2, 1, 3>>)
        vp == permute(reshape(v, <<B, L1, H, S>>), <<0, 2, 1, 3>>)
    IN  IF ~NewKVCheck(k, v, B, L1, H, S) THEN ShapeError("new_kv")
        ELSE IF ~SlotMappingCheck(slot_mapping, B) THEN ShapeError("slot_mapping")
        ELSE IF ~(reshape_ok(k, <<B, L1, H, S>>) /\ reshape_ok(v, <<B, L1, H, S>>))
             THEN ShapeError("reshape")
        ELSE IF IsQuantized(k, k_cache, v_cache)
             THEN IF ~KCacheCheck(k_cache, H, S + QuantStatElems)
                  THEN ShapeError("k_cache")
                  ELSE IF ~VCacheCheck(v_cache, k_cache, H, S + QuantStatElems)
                       THEN ShapeError("v_cache")
                       ELSE WriterCall("paged_attn_quantkv", kp, vp, k_cache, v_cache)
             ELSE IF ~KCacheCheck(k_cache, H, S)
                  THEN ShapeError("k_cache")
                  ELSE IF ~VCacheCheck(v_cache, k_cache, H, S)
                       THEN ShapeError("v_cache")
                       ELSE WriterCall("paged_attn_memcpy", kp, vp, k_cache, v_cache)

(***************************************************************************)
(* PagedAttention::execute (lines 148-159) as the record of one call: the  *)
(* input list, the steps in the order they ran, and what was invoked.  An  *)
(* exception of the population step leaves the function at line 156.       *)
(***************************************************************************)
\* Variant: the exception of the population step is swallowed.
executeIgnoringFailure(n, nd, inputs) ==
    LET g == gatherConcatPastkvForPagedAttn(inputs)
    IN  [node |-> n, inputs |-> inputs, ok |-> TRUE, error |-> g.error,
         events |-> <<"getSrcMemoryAtPort", "gatherConcatPastkvForPagedAttn",
                      "m_executor->execute">>,
         writers |-> g.writers, execInputs |-> inputs, executor |-> nd.m_executor]

execute(n, nd, inputs) ==
    LET g == gatherConcatPastkvForPagedAttn(inputs)
    IN  IF g.ok
        THEN [node |-> n, inputs |-> inputs, ok |-> TRUE, error |-> "",
              events |-> <<"getSrcMemoryAtPort", "gatherConcatPastkvForPagedAttn",
                           "m_executor->execute">>,
              writers |-> g.writers, execInputs |-> inputs,
              executor |-> nd.m_executor]
        ELSE [node |-> n, inputs |-> inputs, ok |-> FALSE, error |-> g.error,
              events |-> <<"getSrcMemoryAtPort", "gatherConcatPastkvForPagedAttn">>,
              writers |-> g.writers, execInputs |-> <<>>, executor |-> NULL]

(***************************************************************************)
(* The memory at the input ports of a node (getSrcMemoryAtPort, lines      *)
(* 152-154): the element type of port p is the one the selected primitive  *)
(* descriptor configured, the extents are those of the tensors of the      *)
(* call.  Scalar ports have no extents.                                    *)
(***************************************************************************)
PortDims(p, sh) ==
    CASE p \in {ID_Q, ID_K} -> sh.k
      [] p = ID_V -> sh.v
      [] p = ID_KCACHE -> sh.k_cache
      [] p = ID_VCACHE -> sh.v_cache
      [] p = ID_SLOT_MAPPING -> sh.slot_mapping
      [] OTHER -> <<>>

SrcMemory(nd, sh) ==
    [i \in 1..nd.nInputs |->
        [m_dt |-> nd.spd[1].inConfs[i], m_dims |-> PortDims(i - 1, sh)]]

(***************************************************************************)
(* The graph executes a node whose primitive was created.                  *)
(***************************************************************************)
Execute(n, shapes) ==
    /\ ~Crashed
    /\ ~InCall
    /\ node[n].status = "constructed"
    /\ node[n].prim = "ok"
    /\ \E sh \in shapes :
          LET c == execute(n, node[n], SrcMemory(node[n], sh))
          IN  /\ call' = c
              \* Line 158 through a null m_executor is undefined behaviour.
              /\ IF c.ok /\ node[n].m_executor = NULL
                 THEN node' = [node EXCEPT ![n].status = "crashed"]
                 ELSE UNCHANGED node
    /\ UNCHANGED <<paramsCache, hasBf16, archX64>>

\* The call returns to the graph.
Return ==
    /\ ~Crashed
    /\ InCall
    /\ call' = NoCall
    /\ UNCHANGED <<node, paramsCache, hasBf16, archX64>>

(***************************************************************************)
(* The tensors of a call.  A consistent set of tensors follows the shape   *)
(* table of the node; the calls of the model are the consistent sets and   *)
(* those in which one tensor differs from a consistent set in one extent   *)
(* (or in the order of its leading axes for a new key or value, or in its  *)
(* rank for the slot mapping).  The graph does not execute                 *)
(* the node on an empty query, key or value, so their extents are          *)
(* positive; a cache may have no block.                                    *)
(***************************************************************************)
Consistent(B, L1, H, S, NB, bs, q) ==
    [k |-> <<B, L1, H * S>>, v |-> <<B, L1, H * S>>,
     k_cache |-> <<NB, H, bs, S + q>>, v_cache |-> <<NB, H, bs, S + q>>,
     slot_mapping |-> <<B, L1>>]

ConsistentShapes ==
    {Consistent(B, L1, H, S, NB, bs, q) :
        B \in 1..MaxB, L1 \in 1..MaxL, H \in 1..MaxH, S \in 1..MaxS,
        NB \in 0..MaxNB, bs \in BlockSizes, q \in {0, QuantStatElems}}

KeyShapes ==
    {<<B, L1, H * S>> : B \in 1..MaxB, L1 \in 1..MaxL, H \in 1..MaxH, S \in 1..MaxS}

CacheShapes ==
    {<<NB, H, bs, S + q>> :
        NB \in 0..MaxNB, H \in 1..MaxH, bs \in BlockSizes, S \in 1..MaxS,
        q \in {0, QuantStatElems}}

SlotShapes ==
    {<<B, L1>> : B \in 1..MaxB, L1 \in 1..MaxL} \cup {<<B>> : B \in 1..MaxB}

\* b is a with at most one extent changed, or a cut to its first axis.
Near(a, b) ==
    IF Len(a) = Len(b)
    THEN Cardinality({i \in 1..Len(a) : a[i] # b[i]}) <= 1
    ELSE b = <<a[1]>>

\* A new key or value laid out [L1, B, H * S]: the same element count.
Transposed(a) == <<a[2], a[1], a[3]>>

CallShapes ==
    UNION {
        {[c EXCEPT !.k = Transposed(c.k)], [c EXCEPT !.v = Transposed(c.v)]}
        \cup {[c EXCEPT !.k = x] : x \in {y \in KeyShapes : Near(c.k, y)}}
        \cup {[c EXCEPT !.v = x] : x \in {y \in KeyShapes : Near(c.v, y)}}
        \cup {[c EXCEPT !.k_cache = x] : x \in {y \in CacheShapes : Near(c.k_cache, y)}}
        \cup {[c EXCEPT !.v_cache = x] : x \in {y \in CacheShapes : Near(c.v_cache, y)}}
        \cup {[c EXCEPT !.slot_mapping = x] :
                x \in {y \in SlotShapes : Near(c.slot_mapping, y)}}
        : c \in ConsistentShapes}

\* The calls of the specification of two nodes: one token, one head.
PinnedShapes ==
    {Consistent(1, 1, 1, 1, 1, 32, q) : q \in {0, QuantStatElems}}

(***************************************************************************)
(* Spec: the nodes of one model, constructed from any operation, sharing   *)
(* one params cache.                                                       *)
(***************************************************************************)
Init ==
    /\ node = [n \in Nodes |-> NoNode]
    /\ paramsCache = {}
    /\ hasBf16 \in BOOLEAN
    /\ archX64 \in BOOLEAN
    /\ call = NoCall

DoConstruct ==
    \E n \in Nodes, typeName \in OpTypes, nInputs \in InputCounts,
       prec0 \in InputPrecisions, kvPrec \in KvPrecisions :
        Construct(n, typeName, nInputs, prec0, kvPrec)

DoInitSupportedPrimitiveDescriptors ==
    \E n \in Nodes : InitSupportedPrimitiveDescriptors(n)

DoCreatePrimitive ==
    \E n \in Nodes : CreatePrimitive(n)

DoExecutePinned ==
    \E n \in Nodes : Execute(n, PinnedShapes)

Next ==
    \/ DoConstruct
    \/ DoInitSupportedPrimitiveDescriptors
    \/ DoCreatePrimitive
    \/ DoExecutePinned
    \/ Return

Spec == Init /\ [][Next]_vars

(***************************************************************************)
(* SpecExec: one constructed node, executed on every call of CallShapes.   *)
(***************************************************************************)
InitExec ==
    /\ \E nInputs \in InputCounts, prec0 \in {"bf16", "f32"}, kvPrec \in KvPrecisions :
          node = [n \in Nodes |->
                    IF n = 1
                    THEN [NoNode EXCEPT !.status = "constructed", !.typeName = PA_TYPE,
                                        !.nInputs = nInputs, !.prec0 = prec0,
                                        !.kvPrec = kvPrec]
                    ELSE NoNode]
    /\ paramsCache = {}
    /\ hasBf16 \in BOOLEAN
    /\ archX64 \in BOOLEAN
    /\ call = NoCall

DoExecute ==
    \E n \in Nodes : Execute(n, CallShapes)

NextExec ==
    \/ DoInitSupportedPrimitiveDescriptors
    \/ DoCreatePrimitive
    \/ DoExecute
    \/ Return

SpecExec == InitExec /\ [][NextExec]_vars

(***************************************************************************)
(* Properties.                                                             *)
(***************************************************************************)
Supported(nd) == nd.typeName = PA_TYPE /\ nd.nInputs \in {13, 14}

ExecutorInvoked == \E i \in 1..Len(call.events) : call.events[i] = "m_executor->execute"

CallK == call.inputs[ID_K + 1]
CallV == call.inputs[ID_V + 1]
CallKCache == call.inputs[ID_KCACHE + 1]
CallVCache == call.inputs[ID_VCACHE + 1]

\* H and S as the caches of the call imply them.
CallH == CallKCache.m_dims[2]
CallS == CallVCache.m_dims[4] - (IF CallKCache.m_dt = "u8" THEN QuantStatElems ELSE 0)

NewKVAgree ==
    /\ CallK.m_dims[3] = CallH * CallS
    /\ CallV.m_dims = <<CallK.m_dims[1], CallK.m_dims[2], CallH * CallS>>

(* C1: a node exists (its constructor returned) only for an operation of   *)
(* type PagedAttentionExtension with 13 or 14 inputs; for every other      *)
(* operation the constructor throws, so that no later step runs on it.     *)
C1_ConstructionRejectsUnsupported ==
    \A n \in Nodes :
        node[n].status # "none" =>
            /\ Supported(node[n]) <=> node[n].status # "rejected"
            /\ ~Supported(node[n]) =>
                  node[n].spdReturns = 0 /\ ~node[n].spdThrew /\ node[n].prim = "none"

(* C2: a call that passes validation invokes exactly one cache writer,     *)
(* once: paged_attn_quantkv if the element type of the K-cache is u8 and   *)
(* paged_attn_memcpy otherwise.                                            *)
C2_WriterChosenByKCacheType ==
    (InCall /\ call.ok) =>
        /\ Len(call.writers) = 1
        /\ call.writers[1].fn =
              IF CallKCache.m_dt = "u8" THEN "paged_attn_quantkv" ELSE "paged_attn_memcpy"

C2_Witness ==
    /\ InCall /\ call.ok
    /\ CallKCache.m_dt = "u8"
    /\ CallK.m_dt = "bf16"
    /\ call.writers[1].fn = "paged_attn_quantkv"

(* C3: when the new key or value tensor does not agree with the H and S    *)
(* the caches imply, the call fails with a shape error, no cache writer is *)
(* invoked and the executor is not invoked.                                *)
C3_MismatchFailsBeforeWrite ==
    (InCall /\ ~NewKVAgree) =>
        /\ ~call.ok
        /\ call.error = "ShapeError"
        /\ call.writers = <<>>
        /\ ~ExecutorInvoked

C3_Witness ==
    /\ InCall
    /\ CallK.m_dims[3] = CallH * CallS
    /\ CallV.m_dims # CallK.m_dims
    /\ call.error = "ShapeError"

C6_RuntimePrecision ==
    \A n \in Nodes :
        node[n].spd # <<>> =>
            LET rt == node[n].spd[1].outConfs[1]
            IN  /\ rt \in {"bf16", "f32"}
                /\ rt = "bf16" <=> (node[n].prec0 = "bf16" /\ hasBf16)
                /\ node[n].spd[1].inConfs[ID_Q + 1] = rt

C6_Witness ==
    \E n \in Nodes :
        /\ node[n].spd # <<>>
        /\ node[n].prec0 = "bf16"
        /\ ~hasBf16
        /\ node[n].spd[1].outConfs[1] = "f32"

(* C7: createPrimitive returns normally only with a non-null m_executor;   *)
(* when the builder yields a null executor it throws and m_executor stays  *)
(* unset, and execute never calls through a null executor.                 *)
C7_NoNullExecutor ==
    /\ \A n \in Nodes :
          /\ node[n].prim = "ok" => node[n].m_executor # NULL
          /\ node[n].prim = "failed" => node[n].m_executor = NULL
          /\ (~archX64 /\ node[n].prim # "none") => node[n].prim = "failed"
    /\ (InCall /\ ExecutorInvoked) => call.executor # NULL

C7_Witness ==
    \E n \in Nodes :
        /\ ~archX64
        /\ node[n].prim = "failed"
        /\ node[n].m_executor = NULL

(* C8: in every execute call the inputs are gathered, then the cache       *)
(* population runs, and only then the executor is invoked, once, with the  *)
(* same input list; it is not invoked in a call whose population failed.   *)
C8_ExecuteOrder ==
    InCall =>
        /\ Len(call.inputs) = node[call.node].nInputs
        /\ call.writers # <<>> =>
              /\ call.events = <<"getSrcMemoryAtPort", "gatherConcatPastkvForPagedAttn",
                                 "m_executor->execute">>
              /\ call.execInputs = call.inputs
        /\ call.error # "" =>
              /\ call.events = <<"getSrcMemoryAtPort", "gatherConcatPastkvForPagedAttn">>
              /\ call.writers = <<>>
              /\ call.execInputs = <<>>
        /\ call.error = "" <=> call.writers # <<>>

C8_Witness ==
    /\ InCall
    /\ call.writers # <<>>
    /\ call.events[3] = "m_executor->execute"
    /\ call.execInputs = call.inputs

(* C9: the executor a node holds was built for the node's own K-cache      *)
(* precision.                                                              *)
C9_ExecutorMatchesKvPrecision ==
    \A n \in Nodes :
        node[n].m_executor # NULL =>
            node[n].m_executor.kvcache_type = node[n].kvPrec

(* C10: after one or more normal returns of                                *)
(* initSupportedPrimitiveDescriptors the node has exactly one descriptor,  *)
(* the one of the first call; a call that failed the input-count assertion *)
(* added none; the 14th input is configured exactly when the node has 14   *)
(* inputs.                                                                 *)
C10_InitDescriptorsIdempotent ==
    \A n \in Nodes :
        /\ node[n].spdReturns >= 1 =>
              Len(node[n].spd) = 1 /\ node[n].spd = node[n].firstDesc
        /\ node[n].spdThrew => node[n].spd = <<>>
        /\ node[n].spd # <<>> =>
              LET inConfs == node[n].spd[1].inConfs
              IN  (/\ Len(inConfs) > ID_SUBSEQUENCE_LENS
                   /\ inConfs[ID_SUBSEQUENCE_LENS + 1] # "undef")
                  <=> node[n].nInputs = 14

C10_Witness ==
    \E n \in Nodes :
        /\ node[n].spdReturns >= 2
        /\ Len(node[n].spd) = 1
        /\ node[n].nInputs = 14
        /\ node[n].spd[1].inConfs[ID_SUBSEQUENCE_LENS + 1] = "i32"

====
